---- MODULE Spec2Model ----
(***************************************************************************)
(* Bible Plan RSS feed generator (worker.ts): the input sanitizers, the    *)
(* schedule engine BuildRSSFeedItems, the feed renderer generateRSSXML and *)
(* the fetch handler that chains them.                                     *)
(*                                                                         *)
(* Text is a sequence of atoms.  An atom is a one-character string for     *)
(* every character the program inspects (digits and letters of the raw     *)
(* path segments, the five XML-reserved characters, space, newline) and    *)
(* may be a run of other characters where the program only copies it.     *)
(* Time is counted in whole hours since 1970-01-01T00:00Z; a server has a  *)
(* fixed local offset from UTC in hours.                                   *)
(***************************************************************************)
EXTENDS Integers, Sequences, FiniteSets, TLC

(***************************************************************************)
(* Bounds of the model.                                                    *)
(***************************************************************************)
\* clock ticks a behaviour may take after its initial instant
MaxTicks == 1
\* start dates are requested up to this many days before and after the base day
MaxDaysBack == 3
\* longest raw chapters segment handed to SanitizeChapters on its own
MaxChapterLen == 3
\* longest text handed to escapeXML on its own
MaxEscapeLen == 3

(***************************************************************************)
(* Generic helpers.                                                        *)
(***************************************************************************)
Min(a, b) == IF a <= b THEN a ELSE b

Abs(a) == IF a < 0 THEN -a ELSE a

\* the concatenation of the sequences ss[lo..hi], split in halves
RECURSIVE Concat(_, _, _)
Concat(ss, lo, hi) ==
  IF lo > hi THEN <<>>
  ELSE IF lo = hi THEN ss[lo]
  ELSE LET mid == (lo + hi) \div 2
       IN Concat(ss, lo, mid) \o Concat(ss, mid + 1, hi)

Flatten(ss) == Concat(ss, 1, Len(ss))

\* JS String.prototype.substring(a, b) for 0 <= a <= b, clamped to the length
Substring(s, a, b) == SubSeq(s, a + 1, Min(b, Len(s)))

(***************************************************************************)
(* JS numbers: NaN is a value outside the integers the program computes.   *)
(* Every comparison with NaN is false; arithmetic on NaN gives NaN.        *)
(***************************************************************************)
NaN == -999999999

isNaN(v) == v = NaN

NumLt(a, b) == a # NaN /\ b # NaN /\ a < b

NumGt(a, b) == a # NaN /\ b # NaN /\ a > b

NumSub(a, b) == IF a = NaN \/ b = NaN THEN NaN ELSE a - b

(***************************************************************************)
(* parseInt(string, radix): skip leading white space, take an optional     *)
(* sign, with no radix given take a 0x/0X prefix as radix 16, then read    *)
(* the longest prefix of digits of the radix; NaN when there is none.      *)
(* Radix 0 stands for "no radix argument".                                 *)
(***************************************************************************)
DigitValue(c) ==
  CASE c = "0" -> 0 [] c = "1" -> 1 [] c = "2" -> 2 [] c = "3" -> 3
    [] c = "4" -> 4 [] c = "5" -> 5 [] c = "6" -> 6 [] c = "7" -> 7
    [] c = "8" -> 8 [] c = "9" -> 9
    [] c \in {"a", "A"} -> 10 [] c \in {"b", "B"} -> 11
    [] c \in {"c", "C"} -> 12 [] c \in {"d", "D"} -> 13
    [] c \in {"e", "E"} -> 14 [] c \in {"f", "F"} -> 15
    [] OTHER -> 99

IsWhiteSpace(c) == c \in {" ", "\t", "\n"}

RECURSIVE SkipWhiteSpace(_)
SkipWhiteSpace(s) ==
  IF s # <<>> /\ IsWhiteSpace(Head(s)) THEN SkipWhiteSpace(Tail(s)) ELSE s

\* the value of the longest digit prefix of s, or NaN; acc/seen carry the scan
RECURSIVE ParseDigits(_, _, _, _)
ParseDigits(s, radix, acc, seen) ==
  IF s # <<>> /\ DigitValue(Head(s)) < radix
  THEN ParseDigits(Tail(s), radix, acc * radix + DigitValue(Head(s)), TRUE)
  ELSE IF seen THEN acc ELSE NaN

parseInt(str, radix) ==
  LET s1   == SkipWhiteSpace(str)
      neg  == s1 # <<>> /\ Head(s1) = "-"
      s2   == IF s1 # <<>> /\ Head(s1) \in {"-", "+"} THEN Tail(s1) ELSE s1
      hex  == radix = 0 /\ Len(s2) >= 2 /\ s2[1] = "0" /\ s2[2] \in {"x", "X"}
      s3   == IF hex THEN Tail(Tail(s2)) ELSE s2
      r    == IF hex THEN 16 ELSE 10
      v    == ParseDigits(s3, r, 0, FALSE)
  IN IF v = NaN THEN NaN ELSE IF neg THEN -v ELSE v

(***************************************************************************)
(* JS Date.  A Date is its time value in hours since the epoch, or         *)
(* InvalidDate.  The calendar is the proleptic Gregorian one.              *)
(***************************************************************************)
HoursPerDay == 24

InvalidDate == NaN

\* day number (days since 1970-01-01) of the civil date y-m-d, m in 1..12
DaysFromCivil(y, m, d) ==
  LET yy  == IF m <= 2 THEN y - 1 ELSE y
      era == yy \div 400
      yoe == yy - era * 400
      mp  == IF m > 2 THEN m - 3 ELSE m + 9
      doy == (153 * mp + 2) \div 5 + d - 1
      doe == yoe * 365 + yoe \div 4 - yoe \div 100 + doy
  IN era * 146097 + doe - 719468

\* the civil date of day number z
CivilFromDays(z) ==
  LET zz  == z + 719468
      era == zz \div 146097
      doe == zz - era * 146097
      yoe == (doe - doe \div 1460 + doe \div 36524 - doe \div 146096) \div 365
      doy == doe - (365 * yoe + yoe \div 4 - yoe \div 100)
      mp  == (5 * doy + 2) \div 153
      d   == doy - (153 * mp + 2) \div 5 + 1
      m   == IF mp < 10 THEN mp + 3 ELSE mp - 9
      y   == yoe + era * 400 + (IF m <= 2 THEN 1 ELSE 0)
  IN [year |-> y, month |-> m, day |-> d]

\* MakeDay(year, month, date) of ECMA-262 for month in 0..11: the day number of
\* the first of the month plus date - 1 (a date past the month's end rolls over)
MakeDay(year, month, date) == DaysFromCivil(year, month + 1, 1) + date - 1

\* Date.UTC(year, month, date), month 0-based
DateUTC(year, month, date) ==
  IF year = NaN \/ month = NaN \/ date = NaN THEN NaN
  ELSE HoursPerDay * MakeDay(year, month, date)

\* new Date(year, month, date) on a server whose local time is UTC + tz hours:
\* local midnight of that calendar day
NewLocalDate(year, month, date, tz) ==
  IF year = NaN \/ month = NaN \/ date = NaN THEN InvalidDate
  ELSE HoursPerDay * MakeDay(year, month, date) - tz

\* the local calendar fields of a Date
LocalCivil(t, tz) == CivilFromDays((t + tz) \div HoursPerDay)

getFullYear(t, tz) == IF t = InvalidDate THEN NaN ELSE LocalCivil(t, tz).year

getMonth(t, tz) == IF t = InvalidDate THEN NaN ELSE LocalCivil(t, tz).month - 1

getDate(t, tz) == IF t = InvalidDate THEN NaN ELSE LocalCivil(t, tz).day

getUTCFullYear(t) == getFullYear(t, 0)

getUTCMonth(t) == getMonth(t, 0)

getUTCDate(t) == getDate(t, 0)

\* Date.prototype.setDate(n): the same local month and time of day, on day n of
\* the month (n <= 0 or past the month's end rolls into the neighbouring months)
setDate(t, n, tz) ==
  LET c == LocalCivil(t, tz)
  IN HoursPerDay * MakeDay(c.year, c.month - 1, n) + ((t + tz) % HoursPerDay) - tz

(***************************************************************************)
(* Strings of the program, as atom sequences.                              *)
(***************************************************************************)
LowerChars ==
  << "a", "b", "c", "d", "e", "f", "g", "h", "i", "j", "k", "l", "m",
     "n", "o", "p", "q", "r", "s", "t", "u", "v", "w", "x", "y", "z" >>

UpperChars ==
  << "A", "B", "C", "D", "E", "F", "G", "H", "I", "J", "K", "L", "M",
     "N", "O", "P", "Q", "R", "S", "T", "U", "V", "W", "X", "Y", "Z" >>

UpperChar(c) ==
  IF \E i \in 1..Len(LowerChars) : LowerChars[i] = c
  THEN UpperChars[CHOOSE i \in 1..Len(LowerChars) : LowerChars[i] = c]
  ELSE c

\* String.prototype.toUpperCase
toUpperCase(s) == [i \in 1..Len(s) |-> UpperChar(s[i])]

DigitChars == << "0", "1", "2", "3", "4", "5", "6", "7", "8", "9" >>

\* String(n) for an integer n >= 0, one atom per digit
RECURSIVE NumToChars(_)
NumToChars(n) ==
  IF n < 10 THEN << DigitChars[n + 1] >>
  ELSE NumToChars(n \div 10) \o << DigitChars[(n % 10) + 1] >>

\* String.prototype.padStart(2, '0')
padStart2(s) == IF Len(s) < 2 THEN << "0" >> \o s ELSE s

PlanFull == << "f", "u", "l", "l" >>

PlanOT == << "o", "t" >>

PlanNT == << "n", "t" >>

ESV == << "E", "S", "V" >>

(***************************************************************************)
(* Static data: the translation registry (resources/translations.json) and *)
(* the three catalogs (resources/full.json, ot.json, nt.json).  A catalog  *)
(* lists every chapter of its books in reading order.                      *)
(***************************************************************************)
translationsJSON ==
  << [Code |-> << "K", "J", "V" >>, Description |-> "King James Version"],
     [Code |-> ESV, Description |-> "English Standard Version"],
     [Code |-> << "N", "I", "V" >>, Description |-> "New International Version"] >>

OTBooks ==
  << <<<<"Genesis">>, 50>>, <<<<"Exodus">>, 40>>, <<<<"Leviticus">>, 27>>,
     <<<<"Numbers">>, 36>>, <<<<"Deuteronomy">>, 34>>, <<<<"Joshua">>, 24>>,
     <<<<"Judges">>, 21>>, <<<<"Ruth">>, 4>>, <<<<"1", " ", "Samuel">>, 31>>,
     <<<<"2", " ", "Samuel">>, 24>>, <<<<"1", " ", "Kings">>, 22>>,
     <<<<"2", " ", "Kings">>, 25>>, <<<<"1", " ", "Chronicles">>, 29>>,
     <<<<"2", " ", "Chronicles">>, 36>>, <<<<"Ezra">>, 10>>,
     <<<<"Nehemiah">>, 13>>, <<<<"Esther">>, 10>>, <<<<"Job">>, 42>>,
     <<<<"Psalms">>, 150>>, <<<<"Proverbs">>, 31>>, <<<<"Ecclesiastes">>, 12>>,
     <<<<"Song", " ", "of", " ", "Solomon">>, 8>>, <<<<"Isaiah">>, 66>>,
     <<<<"Jeremiah">>, 52>>, <<<<"Lamentations">>, 5>>, <<<<"Ezekiel">>, 48>>,
     <<<<"Daniel">>, 12>>, <<<<"Hosea">>, 14>>, <<<<"Joel">>, 3>>,
     <<<<"Amos">>, 9>>, <<<<"Obadiah">>, 1>>, <<<<"Jonah">>, 4>>,
     <<<<"Micah">>, 7>>, <<<<"Nahum">>, 3>>, <<<<"Habakkuk">>, 3>>,
     <<<<"Zephaniah">>, 3>>, <<<<"Haggai">>, 2>>, <<<<"Zechariah">>, 14>>,
     <<<<"Malachi">>, 4>> >>

NTBooks ==
  << <<<<"Matthew">>, 28>>, <<<<"Mark">>, 16>>, <<<<"Luke">>, 24>>,
     <<<<"John">>, 21>>, <<<<"Acts">>, 28>>, <<<<"Romans">>, 16>>,
     <<<<"1", " ", "Corinthians">>, 16>>, <<<<"2", " ", "Corinthians">>, 13>>,
     <<<<"Galatians">>, 6>>, <<<<"Ephesians">>, 6>>, <<<<"Philippians">>, 4>>,
     <<<<"Colossians">>, 4>>, <<<<"1", " ", "Thessalonians">>, 5>>,
     <<<<"2", " ", "Thessalonians">>, 3>>, <<<<"1", " ", "Timothy">>, 6>>,
     <<<<"2", " ", "Timothy">>, 4>>, <<<<"Titus">>, 3>>, <<<<"Philemon">>, 1>>,
     <<<<"Hebrews">>, 13>>, <<<<"James">>, 5>>, <<<<"1", " ", "Peter">>, 5>>,
     <<<<"2", " ", "Peter">>, 3>>, <<<<"1", " ", "John">>, 5>>,
     <<<<"2", " ", "John">>, 1>>, <<<<"3", " ", "John">>, 1>>,
     <<<<"Jude">>, 1>>, <<<<"Revelation">>, 22>> >>

\* the chapters 1..n of every book of books, in order
ChaptersOf(books) ==
  Flatten([b \in 1..Len(books) |->
             [c \in 1..books[b][2] |-> [Book |-> books[b][1], Chapter |-> c]]])

otBookList == ChaptersOf(OTBooks)

ntBookList == ChaptersOf(NTBooks)

fullBookList == otBookList \o ntBookList

\* a catalog is held by reference; BookListOf gives the array a reference names
BookListOf(ref) ==
  CASE ref = "otBookList" -> otBookList
    [] ref = "ntBookList" -> ntBookList
    [] OTHER -> fullBookList

LowerChar(c) ==
  IF \E i \in 1..Len(UpperChars) : UpperChars[i] = c
  THEN LowerChars[CHOOSE i \in 1..Len(UpperChars) : UpperChars[i] = c]
  ELSE c

\* String.prototype.toLowerCase
toLowerCase(s) == [i \in 1..Len(s) |-> LowerChar(s[i])]

(***************************************************************************)
(* Input sanitizers.  `now` is the instant new Date() returns, tz the      *)
(* server's local offset.                                                  *)
(***************************************************************************)
\* SanitizePlan matching the plan whatever its case
SanitizePlanAnyCase(plan) ==
  LET validValues == << PlanNT, PlanOT, PlanFull >>
  IN IF \E i \in 1..Len(validValues) : validValues[i] = toLowerCase(plan)
     THEN toLowerCase(plan) ELSE PlanFull

SanitizePlan(plan) ==
  LET validValues == << PlanNT, PlanOT, PlanFull >>
  IN IF \E i \in 1..Len(validValues) : validValues[i] = plan THEN plan ELSE PlanFull

SanitizeDate(dateString, now, tz) ==
  IF Len(dateString) # 8 THEN now
  ELSE LET year  == parseInt(Substring(dateString, 0, 4), 0)
           month == NumSub(parseInt(Substring(dateString, 4, 6), 0), 1)
           day   == parseInt(Substring(dateString, 6, 8), 0)
           date  == NewLocalDate(year, month, day, tz)
       IN IF \/ NumLt(year, 1900) \/ NumGt(year, 2100)
             \/ NumLt(month, 0) \/ NumGt(month, 11)
             \/ NumLt(day, 1) \/ NumGt(day, 31)
          THEN now
          ELSE IF isNaN(getMonth(date, tz)) \/ isNaN(month) \/ getMonth(date, tz) # month
          THEN now
          ELSE date

\* SanitizeTranslation handing back the caller's spelling of a known code
SanitizeTranslationRaw(translation) ==
  IF \E i \in 1..Len(translationsJSON) :
       translationsJSON[i].Code = toUpperCase(translation)
  THEN translation ELSE ESV

SanitizeTranslation(translation) ==
  LET hits == {i \in 1..Len(translationsJSON) :
                 translationsJSON[i].Code = toUpperCase(translation)}
  IN IF hits # {}
     THEN translationsJSON[CHOOSE i \in hits : \A j \in hits : i <= j].Code
     ELSE ESV

\* SanitizeChapters rejecting only negative counts
SanitizeChaptersFromZero(chapters) ==
  IF Len(chapters) > 2 THEN 1
  ELSE LET result == parseInt(chapters, 10)
       IN IF isNaN(result) \/ result < 0 \/ result > 99 THEN 1 ELSE result

SanitizeChapters(chapters) ==
  IF Len(chapters) > 2 THEN 1
  ELSE LET result == parseInt(chapters, 10)
       IN IF isNaN(result) \/ result < 1 \/ result > 99 THEN 1 ELSE result

formatDateToyyyyMMdd(date, tz) ==
  LET yyyy == NumToChars(getFullYear(date, tz))
      MM   == padStart2(NumToChars(getMonth(date, tz) + 1))
      dd   == padStart2(NumToChars(getDate(date, tz)))
  IN yyyy \o MM \o dd

(***************************************************************************)
(* Schedule engine.                                                        *)
(***************************************************************************)
MaxChapters == 1189

bibleGatewaySlug == << "https://www.biblegateway.com/passage/?search=" >>

\* encodeURIComponent on the characters catalog book names and raw text hold
encodeURIComponentChar(c) ==
  CASE c = " " -> "%20" [] c = "&" -> "%26" [] c = "<" -> "%3C"
    [] c = ">" -> "%3E" [] c = "\"" -> "%22" [] OTHER -> c

encodeURIComponent(s) == [i \in 1..Len(s) |-> encodeURIComponentChar(s[i])]

BuildBibleGatewayURL(book, chapter, translation) ==
  bibleGatewaySlug \o encodeURIComponent(book) \o << "%20" >> \o NumToChars(chapter)
    \o << "&", "version=" >> \o translation

\* getDaysBetween counting forward only: a start date still ahead gives 0
getDaysBetweenClamped(date, now, tz) ==
  LET nowUTC     == DateUTC(getUTCFullYear(now), getUTCMonth(now), getUTCDate(now))
      compareUTC == DateUTC(getFullYear(date, tz), getMonth(date, tz), getDate(date, tz))
      diffInMilliSeconds == IF nowUTC - compareUTC < 0 THEN 0 ELSE nowUTC - compareUTC
  IN diffInMilliSeconds \div HoursPerDay

getDaysBetween(date, now, tz) ==
  LET nowUTC     == DateUTC(getUTCFullYear(now), getUTCMonth(now), getUTCDate(now))
      compareUTC == DateUTC(getFullYear(date, tz), getMonth(date, tz), getDate(date, tz))
      diffInMilliSeconds == Abs(nowUTC - compareUTC)
  IN diffInMilliSeconds \div HoursPerDay

\* the reference bookListMap[plan] || fullBookList
SelectBookList(plan) ==
  CASE plan = PlanFull -> "fullBookList"
    [] plan = PlanOT -> "otBookList"
    [] plan = PlanNT -> "ntBookList"
    [] OTHER -> "fullBookList"

\* DayNumber with Math.floor written for Math.ceil
DayNumberFloor(index, numberOfChapters) == (index + 1) \div numberOfChapters

\* Math.ceil((index + 1) / numberOfChapters) for a zero-based index
DayNumber(index, numberOfChapters) == (index + numberOfChapters) \div numberOfChapters

\* processChapter dating the latest reading day today: the "- 1" left out
processChapterToday(chapter, index, plan, translation, numberOfChapters, daysBetween, now, tz) ==
  [ title       |-> chapter.Book \o << " " >> \o NumToChars(chapter.Chapter),
    description |-> << "Day " >> \o NumToChars(DayNumber(index, numberOfChapters))
                      \o << " of " >> \o toUpperCase(plan)
                      \o << " plan in " >> \o toUpperCase(translation),
    url         |-> BuildBibleGatewayURL(chapter.Book, chapter.Chapter, translation),
    author      |-> << "Bible Gateway" >>,
    date        |-> setDate(now,
                            getDate(now, tz)
                              - (daysBetween - DayNumber(index, numberOfChapters)),
                            tz) ]

processChapter(chapter, index, plan, translation, numberOfChapters, daysBetween, now, tz) ==
  [ title       |-> chapter.Book \o << " " >> \o NumToChars(chapter.Chapter),
    description |-> << "Day " >> \o NumToChars(DayNumber(index, numberOfChapters))
                      \o << " of " >> \o toUpperCase(plan)
                      \o << " plan in " >> \o toUpperCase(translation),
    url         |-> BuildBibleGatewayURL(chapter.Book, chapter.Chapter, translation),
    author      |-> << "Bible Gateway" >>,
    date        |-> setDate(now,
                            getDate(now, tz) - 1
                              - (daysBetween - DayNumber(index, numberOfChapters)),
                            tz) ]

\* Slice0 starting one entry late: slice(1, n + 1)
Slice1(list, n) == SubSeq(list, 2, Min(n + 1, Len(list)))

\* Array.prototype.slice(0, n)
Slice0(list, n) == SubSeq(list, 1, Min(n, Len(list)))

\* ChaptersToGet answering a count over the cap with no chapters at all
ChaptersToGetRefusing(daysBetween, numberOfChapters) ==
  IF daysBetween * numberOfChapters > MaxChapters
  THEN 0 ELSE daysBetween * numberOfChapters

\* ChaptersToGet with Math.max written for Math.min
ChaptersToGetMax(daysBetween, numberOfChapters) ==
  IF daysBetween * numberOfChapters >= MaxChapters
  THEN daysBetween * numberOfChapters ELSE MaxChapters

\* the number of chapters asked of the catalog, capped against exhaustion
ChaptersToGet(daysBetween, numberOfChapters) ==
  Min(daysBetween * numberOfChapters, MaxChapters)

BuildRSSFeedItems(plan, translation, startDate, numberOfChapters, now, tz) ==
  LET daysBetween   == getDaysBetween(startDate, now, tz)
      chaptersToGet == ChaptersToGet(daysBetween, numberOfChapters)
      bookList      == BookListOf(SelectBookList(plan))
      taken         == Slice0(bookList, chaptersToGet)
  IN [i \in 1..Len(taken) |->
        processChapter(taken[i], i - 1, plan, translation, numberOfChapters,
                       daysBetween, now, tz)]

(***************************************************************************)
(* Feed renderer.                                                          *)
(***************************************************************************)
\* String.prototype.replace(/ch/g, rep): every atom ch replaced by the atoms rep
ReplaceAll(str, ch, rep) ==
  IF \A i \in 1..Len(str) : str[i] # ch THEN str
  ELSE Flatten([i \in 1..Len(str) |-> IF str[i] = ch THEN rep ELSE << str[i] >>])

\* escapeXML replacing the ampersand last, after the entities were written
escapeXMLAmpLast(str) ==
  LET s1 == ReplaceAll(str, "<", << "&", "lt;" >>)
      s2 == ReplaceAll(s1, ">", << "&", "gt;" >>)
      s3 == ReplaceAll(s2, "\"", << "&", "quot;" >>)
      s4 == ReplaceAll(s3, "'", << "&", "apos;" >>)
  IN ReplaceAll(s4, "&", << "&", "amp;" >>)

escapeXML(str) ==
  LET s1 == ReplaceAll(str, "&", << "&", "amp;" >>)
      s2 == ReplaceAll(s1, "<", << "&", "lt;" >>)
      s3 == ReplaceAll(s2, ">", << "&", "gt;" >>)
      s4 == ReplaceAll(s3, "\"", << "&", "quot;" >>)
  IN ReplaceAll(s4, "'", << "&", "apos;" >>)

DayNames == << "Thu", "Fri", "Sat", "Sun", "Mon", "Tue", "Wed" >>

MonthNames ==
  << "Jan", "Feb", "Mar", "Apr", "May", "Jun",
     "Jul", "Aug", "Sep", "Oct", "Nov", "Dec" >>

\* Date.prototype.toUTCString: "Thu, 01 Jan 1970 00:00:00 GMT"
formatRSSDate(date) ==
  LET days == date \div HoursPerDay
      c    == CivilFromDays(days)
  IN << DayNames[(days % 7) + 1], ",", " " >> \o padStart2(NumToChars(c.day))
       \o << " ", MonthNames[c.month], " " >> \o NumToChars(c.year) \o << " " >>
       \o padStart2(NumToChars(date % HoursPerDay)) \o << ":00:00 GMT" >>

\* an element on a line of its own: indentation, <tag>, the content, </tag>
Element(indent, tag, content) ==
  << "\n", indent, "<", tag, ">" >> \o content \o << "<", "/" \o tag, ">" >>

\* ItemXML with the title and the description elements filled from each other
ItemXMLSwapped(item) ==
  << "\n", "    ", "<", "item", ">" >>
    \o Element("      ", "title", escapeXML(item.description))
    \o Element("      ", "description", escapeXML(item.title))
    \o Element("      ", "link", escapeXML(item.url))
    \o << "\n", "      ", "<", "guid", " ", "isPermaLink=", "\"", "true", "\"", ">" >>
    \o escapeXML(item.url) \o << "<", "/guid", ">" >>
    \o Element("      ", "pubDate", formatRSSDate(item.date))
    \o Element("      ", "author", escapeXML(item.author))
    \o << "\n", "    ", "<", "/item", ">" >>

ItemXML(item) ==
  << "\n", "    ", "<", "item", ">" >>
    \o Element("      ", "title", escapeXML(item.title))
    \o Element("      ", "description", escapeXML(item.description))
    \o Element("      ", "link", escapeXML(item.url))
    \o << "\n", "      ", "<", "guid", " ", "isPermaLink=", "\"", "true", "\"", ">" >>
    \o escapeXML(item.url) \o << "<", "/guid", ">" >>
    \o Element("      ", "pubDate", formatRSSDate(item.date))
    \o Element("      ", "author", escapeXML(item.author))
    \o << "\n", "    ", "<", "/item", ">" >>

generateRSSXML(feedMetadata, items) ==
  LET itemsXML == Flatten([i \in 1..Len(items) |-> ItemXML(items[i])])
  IN << "<", "?xml", " ", "version=", "\"", "1.0", "\"", " ", "encoding=", "\"",
        "UTF-8", "\"", "?", ">",
        "\n", "<", "rss", " ", "version=", "\"", "2.0", "\"", " ", "xmlns:atom=",
        "\"", "http://www.w3.org/2005/Atom", "\"", ">",
        "\n", "  ", "<", "channel", ">" >>
       \o Element("    ", "title", escapeXML(feedMetadata.title))
       \o Element("    ", "description", escapeXML(feedMetadata.description))
       \o Element("    ", "link", escapeXML(feedMetadata.siteUrl))
       \o << "\n", "    ", "<", "atom:link", " ", "href=", "\"" >>
       \o escapeXML(feedMetadata.feedUrl)
       \o << "\"", " ", "rel=", "\"", "self", "\"", " ", "type=", "\"",
             "application/rss+xml", "\"", "/", ">" >>
       \o Element("    ", "language", escapeXML(feedMetadata.language))
       \o Element("    ", "managingEditor", escapeXML(feedMetadata.managingEditor))
       \o Element("    ", "webMaster", escapeXML(feedMetadata.webMaster))
       \o Element("    ", "copyright", escapeXML(feedMetadata.copyright))
       \o Element("    ", "pubDate", formatRSSDate(feedMetadata.pubDate))
       \o Element("    ", "ttl", NumToChars(feedMetadata.ttl))
       \o << "\n", "    ", "<", "image", ">" >>
       \o Element("      ", "url", escapeXML(feedMetadata.imageUrl))
       \o Element("      ", "title", escapeXML(feedMetadata.title))
       \o Element("      ", "link", escapeXML(feedMetadata.siteUrl))
       \o << "\n", "    ", "<", "/image", ">" >>
       \o itemsXML
       \o << "\n", "  ", "<", "/channel", ">", "\n", "<", "/rss", ">" >>

(***************************************************************************)
(* Feed readers: the helpers the test suite reads a rendered feed with.    *)
(***************************************************************************)
\* the text <tag> starts at position p
TagAt(text, p, tag) ==
  /\ text[p] = "<"
  /\ p + 2 <= Len(text)
  /\ text[p + 1] = tag
  /\ text[p + 2] = ">"

\* text.match(/<tag>/g).length, 0 without a match
CountTag(text, tag) == Cardinality({p \in 1..Len(text) : TagAt(text, p, tag)})

getRSSItemCount(text) == CountTag(text, "item")

\* the positions the title pattern looks at: line ends and the starts of
\* <item>, </item>, <title>, </title>, in text order
TitleMarks(text) ==
  LET Marked(p) ==
        \/ text[p] = "\n"
        \/ /\ text[p] = "<"
           /\ \E tag \in {"item", "/item", "title", "/title"} : TagAt(text, p, tag)
  IN SelectSeq([p \in 1..Len(text) |-> p], Marked)

\* one step of /<item>[\s\S]*?<title>(.*?)<\/title>[\s\S]*?<\/item>/g over a mark:
\* after <item> the first <title> whose line also holds a </title> is taken, the
\* group is the text between them, and the match ends at the next </item>
TitleStep(text, st, p) ==
  LET mark == IF text[p] = "\n" THEN "\n" ELSE text[p + 1]
  IN CASE st.seek = "item" /\ mark = "item" ->
            [st EXCEPT !.seek = "title", !.open = 0]
       [] st.seek = "title" /\ mark = "title" /\ st.open = 0 ->
            [st EXCEPT !.open = p + 3]
       [] st.seek = "title" /\ mark = "\n" ->
            [st EXCEPT !.open = 0]
       [] st.seek = "title" /\ mark = "/title" /\ st.open # 0 ->
            [st EXCEPT !.seek = "/item", !.group = SubSeq(text, st.open, p - 1)]
       [] st.seek = "/item" /\ mark = "/item" ->
            [st EXCEPT !.seek = "item", !.titles = Append(st.titles, st.group)]
       [] OTHER -> st

\* the steps over marks lo..hi, in order: the first half of the marks is
\* scanned to its end before the second half is entered
RECURSIVE TitleScan(_, _, _, _, _)
TitleScan(text, marks, st, lo, hi) ==
  IF lo > hi THEN st
  ELSE IF lo = hi THEN TitleStep(text, st, marks[lo])
  ELSE LET mid  == (lo + hi) \div 2
           left == TitleScan(text, marks, st, lo, mid)
       IN IF left.seek \in {"item", "title", "/item"}
          THEN TitleScan(text, marks, left, mid + 1, hi)
          ELSE left

\* the titles (match[1]) of the successive matches of the title pattern
getRSSItems(text) ==
  LET marks == TitleMarks(text)
      start == [seek |-> "item", open |-> 0, group |-> << >>, titles |-> << >>]
  IN TitleScan(text, marks, start, 1, Len(marks)).titles

(***************************************************************************)
(* The fetch handler.                                                      *)
(***************************************************************************)
Servers == {1, 2}

\* local offsets from UTC, in hours, a server may run with
TZOffsets == {-8, 0, 2}

\* the instant the clock starts at: 2026-03-01T23:00Z
BaseDay == DaysFromCivil(2026, 3, 1)

NowBase == HoursPerDay * BaseDay + 23

\* hours the clock advances in one tick
TickHours == 6

NoRequest == [kind |-> "none"]

NoResponse == [status |-> "none"]

FeedUrl(sanitizedPlan, sanitizedStartDate, sanitizedTranslation, sanitizedChapters, tz) ==
  << "https:", "/", "/", "www.bibleplanfeed.com", "/", "rssbible", "/" >>
    \o sanitizedPlan \o << "/" >> \o formatDateToyyyyMMdd(sanitizedStartDate, tz)
    \o << "/" >> \o sanitizedTranslation \o << "/" >> \o NumToChars(sanitizedChapters)
    \o << "/", "feed.rss" >>

FeedMetadata(feedUrl, now) ==
  [ title          |-> << "Bible Plan Feed" >>,
    description    |-> << "Go to www.bibleplanfeed.com for more information." >>,
    feedUrl        |-> feedUrl,
    siteUrl        |-> << "https:", "/", "/", "www.bibleplanfeed.com", "/" >>,
    imageUrl       |-> << "https:", "/", "/", "www.bibleplanfeed.com", "/", "icon.png" >>,
    managingEditor |-> << "github.com", "/", "tryonlinux - Not affiliated with Bible Gateway" >>,
    webMaster      |-> << "github.com", "/", "tryonlinux" >>,
    copyright      |-> << "github.com", "/", "tryonlinux - Not affiliated with Bible Gateway" >>,
    language       |-> << "en" >>,
    pubDate        |-> now,
    ttl            |-> 60 ]

\* the response to a request r handled at instant now on a server at offset tz,
\* with the handler's local values kept beside the rendered document
Handle(r, now, tz) ==
  IF r.kind # "rss" THEN [status |-> "asset", at |-> now]
  ELSE
    LET sanitizedPlan        == SanitizePlan(r.plan)
        sanitizedStartDate   == SanitizeDate(r.startDate, now, tz)
        sanitizedChapters    == SanitizeChapters(r.chapters)
        sanitizedTranslation == SanitizeTranslation(r.translation)
        feedMetadata ==
          FeedMetadata(FeedUrl(sanitizedPlan, sanitizedStartDate,
                               sanitizedTranslation, sanitizedChapters, tz), now)
        items == BuildRSSFeedItems(sanitizedPlan, sanitizedTranslation,
                                   sanitizedStartDate, sanitizedChapters, now, tz)
    IN [ status               |-> "feed",
         at                   |-> now,
         sanitizedPlan        |-> sanitizedPlan,
         sanitizedTranslation |-> sanitizedTranslation,
         sanitizedStartDate   |-> sanitizedStartDate,
         sanitizedChapters    |-> sanitizedChapters,
         daysBetween          |-> getDaysBetween(sanitizedStartDate, now, tz),
         bookList             |-> SelectBookList(sanitizedPlan),
         feedUrl              |-> feedMetadata.feedUrl,
         items                |-> items,
         rssXML               |-> generateRSSXML(feedMetadata, items) ]

(***************************************************************************)
(* Raw path segments a client may send.  A segment is a non-empty string   *)
(* without "/".                                                            *)
(***************************************************************************)
\* yyyyMMdd of the day `back` days before the base day
DateSegment(back) == formatDateToyyyyMMdd(HoursPerDay * (BaseDay - back), 0)

NearDateSegments == {DateSegment(b) : b \in (0 - MaxDaysBack)..MaxDaysBack}

PlanSegments ==
  { PlanOT, PlanNT, PlanFull, << "O", "T" >>, << "x", "y", "z" >>, << "o", "t", "x" >> }

TranslationSegments ==
  { << "e", "s", "v" >>, ESV, << "n", "i", "v" >>, << "K", "j", "V" >>,
    << "b", "o", "g", "u", "s" >>, << "<", "&", ">" >> }

OddDateSegments ==
  { << "2", "0", "2", "6", "1", "3", "3", "2" >>,
    << "2", "0", "2", "6", "0", "2", "3", "0" >>,
    << "2", "0", "2", "6", "0", "2", "2", "x" >>,
    << "2", "0", "2", "6", "0", "2", "2" >>,
    << "t", "o", "d", "a", "y" >> }

FarDateSegment == << "1", "9", "0", "0", "0", "1", "0", "1" >>

ChapterSegments ==
  { << "1" >>, << "2" >>, << "3" >>, << "9", "9" >>, << "0" >>, << "1", "0", "0" >>,
    << "-", "1" >>, << "5", "x" >>, << "x" >> }

RssRequest(plan, translation, startDate, chapters) ==
  [kind |-> "rss", plan |-> plan, translation |-> translation,
   startDate |-> startDate, chapters |-> chapters]

\* new URL(url).pathname of an absolute URL: the text from the first "/" after
\* the "//" of the scheme
pathname(url) ==
  LET slashes == {i \in 1..Len(url) : url[i] = "/"}
      after   == {i \in slashes : Cardinality({j \in slashes : j < i}) >= 2}
  IN IF after = {} THEN << "/" >>
     ELSE SubSeq(url, CHOOSE i \in after : \A j \in after : i <= j, Len(url))

\* the runs of atoms between the "/" of a path that starts with "/"
SplitPath(path) ==
  LET IsSlash(i) == path[i] = "/"
      cuts == SelectSeq([i \in 1..Len(path) |-> i], IsSlash)
  IN [k \in 1..Len(cuts) |->
        SubSeq(path, cuts[k] + 1,
               IF k < Len(cuts) THEN cuts[k + 1] - 1 ELSE Len(path))]

\* pathname.match(/^\/rssbible\/([^\/]+)\/([^\/]+)\/([^\/]+)\/([^\/]+)\/feed\.rss$/)
\* with the groups destructured as [, plan, translation, startDate, chapters]
rssMatch(path) ==
  LET parts == SplitPath(path)
  IN IF /\ path # << >>
        /\ path[1] = "/"
        /\ Len(parts) = 6
        /\ parts[1] = << "rssbible" >>
        /\ parts[6] = << "feed.rss" >>
        /\ \A k \in 2..5 : parts[k] # << >>
     THEN RssRequest(parts[2], parts[3], parts[4], parts[5])
     ELSE [kind |-> "other"]

BaseRequest == RssRequest(PlanOT, << "e", "s", "v" >>, DateSegment(1), << "1" >>)

\* the requests of the model: well-formed ones around the base day, the base
\* request with one segment varied at a time, long-elapsed ones, and a path
\* off the feed route
Requests ==
  {RssRequest(p, << "e", "s", "v" >>, d, c) :
      p \in {PlanOT, PlanNT, PlanFull}, d \in NearDateSegments,
      c \in {<< "1" >>, << "3" >>}}
  \cup {[BaseRequest EXCEPT !.plan = p] : p \in PlanSegments}
  \cup {[BaseRequest EXCEPT !.translation = t] : t \in TranslationSegments}
  \cup {[BaseRequest EXCEPT !.startDate = d] : d \in OddDateSegments}
  \cup {[BaseRequest EXCEPT !.chapters = c] : c \in ChapterSegments}
  \cup {RssRequest(PlanNT, ESV, DateSegment(MaxDaysBack), << "9", "9" >>)}
  \cup {RssRequest(PlanFull, ESV, FarDateSegment, << "9", "9" >>)}
  \cup {[kind |-> "other"]}

(***************************************************************************)
(* State.                                                                  *)
(***************************************************************************)
VARIABLES
  now,    \* the clock: hours since the epoch
  ticks,  \* ticks taken so far
  tz,     \* tz[s]: local offset of server s (server 1, the Workers deployment,
          \* runs in UTC; server 2 is a Node deployment in any zone)
  req,    \* the request in flight, sent to every server
  resp,   \* resp[s]: the response of server s to req
  probe   \* a single function call made on its own: its argument and result

vars == << now, ticks, tz, req, resp, probe >>

NoProbe == [fn |-> "none"]

Init ==
  /\ now = NowBase
  /\ ticks = 0
  /\ tz \in {f \in [Servers -> TZOffsets] : f[1] = 0}
  /\ req = NoRequest
  /\ resp = [s \in Servers |-> NoResponse]
  /\ probe = NoProbe

\* a client sends a request, once the one before it has been answered
Request(r) ==
  /\ \A s \in Servers : req # NoRequest => resp[s] # NoResponse
  /\ req' = r
  /\ resp' = [s \in Servers |-> NoResponse]
  /\ UNCHANGED << now, ticks, tz, probe >>

\* server s runs the fetch handler on the request in flight
Fetch(s) ==
  /\ req # NoRequest
  /\ resp[s] = NoResponse
  /\ resp' = [resp EXCEPT ![s] = Handle(req, now, tz[s])]
  /\ UNCHANGED << now, ticks, tz, req, probe >>

\* time passes
Tick ==
  /\ ticks < MaxTicks
  /\ now' = now + TickHours
  /\ ticks' = ticks + 1
  /\ UNCHANGED << tz, req, resp, probe >>

Next ==
  \/ \E r \in Requests : Request(r)
  \/ \E s \in Servers : Fetch(s)
  \/ Tick

Spec == Init /\ [][Next]_vars

(***************************************************************************)
(* The pure functions called on their own: the initial state draws one     *)
(* call (the function and its argument), the action makes it.              *)
(***************************************************************************)
\* all texts of length 0..n over the atoms of alphabet
RECURSIVE TextsUpTo(_, _)
TextsUpTo(alphabet, n) ==
  IF n = 0 THEN {<<>>}
  ELSE LET shorter == TextsUpTo(alphabet, n - 1)
       IN shorter \cup {Append(t, a) : t \in shorter, a \in alphabet}

ChapterChars == {"0", "1", "5", "9", "x", "-", " "}

YearParts ==
  { << "1", "8", "9", "9" >>, << "1", "9", "0", "0" >>, << "2", "0", "2", "4" >>,
    << "2", "0", "2", "6" >>, << "2", "1", "0", "0" >>, << "2", "1", "0", "1" >>,
    << "2", "0", "x", "6" >>, << "0", "x", "7", "E" >>, << "x", "x", "x", "x" >> }

MonthParts ==
  { << "0", "0" >>, << "0", "1" >>, << "0", "2" >>, << "0", "4" >>, << "1", "2" >>,
    << "1", "3" >>, << "1", "x" >>, << "+", "3" >>, << "x", "1" >> }

DayParts ==
  { << "0", "0" >>, << "0", "1" >>, << "2", "8" >>, << "2", "9" >>, << "3", "0" >>,
    << "3", "1" >>, << "3", "2" >>, << "1", "x" >>, << "+", "5" >>, << "x", "1" >> }

DateProbeArgs ==
  {y \o m \o d : y \in YearParts, m \in MonthParts, d \in DayParts}
  \cup OddDateSegments
  \cup {<<>>, << "2", "0", "2", "6", "0", "3", "0", "1", "0" >>}

EscapeAtoms == {"&", "<", ">", "\"", "'", "a", "amp;"}

HostileTexts == { << "a" >>, << "<", "b", ">" >>, << "&", "'" >>, << "\"" >> }

HostileItems ==
  {[title |-> t, description |-> d, url |-> u, author |-> a, date |-> NowBase] :
      t \in HostileTexts, d \in HostileTexts, u \in HostileTexts, a \in HostileTexts}

TextFields ==
  { "title", "description", "feedUrl", "siteUrl", "imageUrl", "managingEditor",
    "webMaster", "copyright", "language" }

BenignMetadata == FeedMetadata(<< "u" >>, NowBase)

HostileMetadata ==
  {[k \in DOMAIN BenignMetadata |->
      IF k \in fs THEN h ELSE BenignMetadata[k]] :
      fs \in {{f} : f \in TextFields} \cup {TextFields}, h \in HostileTexts}

\* three times of the base day (UTC) at which the engine is called: 01:00, 12:00
\* and 23:00
EngineInstants == {NowBase - 22, NowBase - 11, NowBase}

EngineChapters == {1, 2, 3, 50, 99}

\* one run of the handler's engine steps: the start-date segment is sanitized
\* and the items are built, with new Date() returning `at` throughout
EngineCall(plan, startDate, numberOfChapters, at) ==
  [plan |-> plan, translation |-> ESV, startDate |-> startDate,
   numberOfChapters |-> numberOfChapters, at |-> at]

\* a start date far enough back for 99 chapters a day to pass the cap while 50
\* a day stay under it
MidDateSegment == DateSegment(20)

\* pairs of runs: the same inputs at two times of the day, a start date b days
\* back and b days ahead, and two chapters-per-day values in rising order
EnginePairs ==
  {<< EngineCall(p, d, c, t1), EngineCall(p, d, c, t2) >> :
      p \in {PlanNT, PlanFull}, d \in NearDateSegments, c \in {1, 3},
      t1 \in EngineInstants, t2 \in EngineInstants}
  \cup {<< EngineCall(p, DateSegment(b), c, t), EngineCall(p, DateSegment(0 - b), c, t) >> :
          p \in {PlanNT, PlanFull}, b \in 0..MaxDaysBack, c \in EngineChapters,
          t \in EngineInstants}
  \cup {<< EngineCall(p, d, cs[1], t), EngineCall(p, d, cs[2], t) >> :
          p \in {PlanNT, PlanFull}, d \in NearDateSegments \cup {MidDateSegment},
          cs \in {x \in EngineChapters \X EngineChapters : x[1] <= x[2]},
          t \in EngineInstants}

\* what one run computes
EngineResult(call, zone) ==
  LET startDate == SanitizeDate(call.startDate, call.at, zone)
  IN [ startDate   |-> startDate,
       daysBetween |-> getDaysBetween(startDate, call.at, zone),
       items       |-> BuildRSSFeedItems(call.plan, call.translation, startDate,
                                         call.numberOfChapters, call.at, zone) ]

Call(fn, arg) == [fn |-> fn, arg |-> arg, done |-> FALSE, out |-> <<>>]

Probes ==
  {Call("SanitizeDate", a) : a \in DateProbeArgs}
  \cup {Call("SanitizeChapters", a) : a \in TextsUpTo(ChapterChars, MaxChapterLen)}
  \cup {Call("escapeXML", a) : a \in TextsUpTo(EscapeAtoms, MaxEscapeLen)}
  \cup {Call("generateRSSXML", [feedMetadata |-> BenignMetadata, items |-> << it >>]) :
          it \in HostileItems}
  \cup {Call("generateRSSXML", [feedMetadata |-> m, items |-> <<>>]) :
          m \in HostileMetadata}
  \cup {Call("BuildRSSFeedItems", pair) : pair \in EnginePairs}

InitPure ==
  /\ now = NowBase
  /\ ticks = 0
  /\ tz \in {f \in [Servers -> TZOffsets] : f[1] = 0}
  /\ req = NoRequest
  /\ resp = [s \in Servers |-> NoResponse]
  /\ probe \in Probes

Return(fn, out) ==
  /\ probe.fn = fn
  /\ ~probe.done
  /\ probe' = [probe EXCEPT !.done = TRUE, !.out = out]
  /\ UNCHANGED << now, ticks, tz, req, resp >>

CallSanitizeDate ==
  /\ probe.fn = "SanitizeDate"
  /\ Return("SanitizeDate", SanitizeDate(probe.arg, now, tz[2]))

CallSanitizeChapters ==
  /\ probe.fn = "SanitizeChapters"
  /\ Return("SanitizeChapters", SanitizeChapters(probe.arg))

CallEscapeXML ==
  /\ probe.fn = "escapeXML"
  /\ Return("escapeXML", escapeXML(probe.arg))

CallGenerateRSSXML ==
  /\ probe.fn = "generateRSSXML"
  /\ Return("generateRSSXML", generateRSSXML(probe.arg.feedMetadata, probe.arg.items))

CallBuildRSSFeedItems ==
  /\ probe.fn = "BuildRSSFeedItems"
  /\ Return("BuildRSSFeedItems",
            << EngineResult(probe.arg[1], tz[2]), EngineResult(probe.arg[2], tz[2]) >>)

NextPure ==
  \/ CallSanitizeDate
  \/ CallSanitizeChapters
  \/ CallEscapeXML
  \/ CallGenerateRSSXML
  \/ CallBuildRSSFeedItems

SpecPure == InitPure /\ [][NextPure]_vars

(***************************************************************************)
(* Vocabulary of the properties.                                           *)
(***************************************************************************)
Fed(s) == resp[s].status = "feed"

\* the UTC calendar day (day number) of an instant
UTCDay(t) == t \div HoursPerDay

IsDigit(c) == \E i \in 1..Len(DigitChars) : DigitChars[i] = c

\* the number a string of decimal digits denotes
RECURSIVE DecimalValue(_)
DecimalValue(s) ==
  IF s = <<>> THEN 0
  ELSE 10 * DecimalValue(SubSeq(s, 1, Len(s) - 1)) + DigitValue(s[Len(s)])

IsLeapYear(y) == (y % 4 = 0 /\ y % 100 # 0) \/ y % 400 = 0

DaysInMonth(y, m) ==
  IF m = 2 THEN (IF IsLeapYear(y) THEN 29 ELSE 28)
  ELSE IF m \in {4, 6, 9, 11} THEN 30 ELSE 31

\* seg is YYYYMMDD, all digits, naming a real calendar date of 1900..2100
ValidDateSegment(seg) ==
  /\ Len(seg) = 8
  /\ \A i \in 1..8 : IsDigit(seg[i])
  /\ LET y == DecimalValue(SubSeq(seg, 1, 4))
         m == DecimalValue(SubSeq(seg, 5, 6))
         d == DecimalValue(SubSeq(seg, 7, 8))
     IN /\ y \in 1900..2100
        /\ m \in 1..12
        /\ d \in 1..DaysInMonth(y, m)

\* the calendar date a valid segment names
SegmentCivil(seg) ==
  [year  |-> DecimalValue(SubSeq(seg, 1, 4)),
   month |-> DecimalValue(SubSeq(seg, 5, 6)),
   day   |-> DecimalValue(SubSeq(seg, 7, 8))]

SegmentDay(seg) ==
  LET c == SegmentCivil(seg) IN DaysFromCivil(c.year, c.month, c.day)

\* the catalog the raw plan segment stands for
CatalogRefOfSegment(plan) ==
  IF plan = PlanOT THEN "otBookList"
  ELSE IF plan = PlanNT THEN "ntBookList" ELSE "fullBookList"

\* "<Book> <Chapter>"
TitleOf(entry) == entry.Book \o << " " >> \o NumToChars(entry.Chapter)

(***************************************************************************)
(* C1: a feed never holds more items than min(elapsedDays * chaptersPerDay, *)
(* 1189), nor more than the selected plan's catalog holds.                 *)
(***************************************************************************)
C1_ItemCountCapped ==
  \A s \in Servers :
    Fed(s) =>
      /\ resp[s].sanitizedChapters \in 1..99
      /\ Len(resp[s].items)
           <= Min(resp[s].daysBetween * resp[s].sanitizedChapters, 1189)
      /\ Len(resp[s].items) <= Len(BookListOf(CatalogRefOfSegment(req.plan)))
      /\ Len(resp[s].items) <= 1189

\* a start date in 1900 at 99 chapters a day: far more than 1189 chapters are due
\* and exactly 1189 items are returned
C1_Witness ==
  /\ \E s \in Servers :
       /\ Fed(s)
       /\ req.startDate = FarDateSegment
       /\ resp[s].daysBetween * resp[s].sanitizedChapters > 1189
       /\ Len(resp[s].items) = 1189

(***************************************************************************)
(* C2: for a start date d days before today's UTC date and c chapters a    *)
(* day with d * c within the catalog, the feed holds exactly d * c items   *)
(* and item i is titled "<Book> <Chapter>" of catalog entry i of the plan. *)
(***************************************************************************)
C2_FirstEntriesInOrder ==
  \A s \in Servers :
    (Fed(s) /\ ValidDateSegment(req.startDate)) =>
      LET d   == UTCDay(resp[s].at) - SegmentDay(req.startDate)
          c   == resp[s].sanitizedChapters
          cat == BookListOf(CatalogRefOfSegment(req.plan))
      IN (d >= 0 /\ d * c <= Len(cat)) =>
           /\ Len(resp[s].items) = d * c
           /\ \A i \in 1..(d * c) : resp[s].items[i].title = TitleOf(cat[i])

\* three days back at three chapters a day on the NT plan: nine items
C2_Witness ==
  \E s \in Servers :
    /\ Fed(s)
    /\ req.plan = PlanNT
    /\ ValidDateSegment(req.startDate)
    /\ UTCDay(resp[s].at) - SegmentDay(req.startDate) = 3
    /\ resp[s].sanitizedChapters = 3
    /\ Len(resp[s].items) = 9
    /\ resp[s].items[9].title = << "Matthew", " ", "9" >>

(***************************************************************************)
(* C3: every request on the feed route is answered with a rendered feed,   *)
(* whatever its four segments hold, and each invalid segment is replaced   *)
(* by its fallback: full, ESV, today, 1.                                   *)
(***************************************************************************)
KnownTranslation(raw) ==
  \E i \in 1..Len(translationsJSON) : translationsJSON[i].Code = toUpperCase(raw)

ValidChaptersSegment(raw) ==
  /\ Len(raw) <= 2
  /\ ~isNaN(parseInt(raw, 10))
  /\ parseInt(raw, 10) \in 1..99

C3_AlwaysFeedWithFallbacks ==
  \A s \in Servers :
    (req.kind = "rss" /\ resp[s] # NoResponse) =>
      /\ Fed(s)
      /\ req.plan \notin {PlanOT, PlanNT, PlanFull} => resp[s].sanitizedPlan = PlanFull
      /\ ~KnownTranslation(req.translation) => resp[s].sanitizedTranslation = ESV
      /\ ~ValidDateSegment(req.startDate) => resp[s].sanitizedStartDate = resp[s].at
      /\ ~ValidChaptersSegment(req.chapters) => resp[s].sanitizedChapters = 1

(***************************************************************************)
(* C4: SanitizeDate returns the requested calendar date exactly when the   *)
(* raw segment is eight digits YYYYMMDD naming a real date of 1900..2100,  *)
(* and the current date for every other raw string.                        *)
(***************************************************************************)
C4_SanitizeDateExact ==
  (probe.fn = "SanitizeDate" /\ probe.done) =>
    IF ValidDateSegment(probe.arg)
    THEN LocalCivil(probe.out, tz[2]) = SegmentCivil(probe.arg)
    ELSE probe.out = now

(***************************************************************************)
(* C5: SanitizeChapters returns an integer of 1..99 for every raw string:  *)
(* 1 for a string longer than 2 characters, for one parseInt reads no      *)
(* integer from, and for a parsed value outside 1..99; the parsed value    *)
(* otherwise.                                                              *)
(***************************************************************************)
C5_SanitizeChaptersRange ==
  (probe.fn = "SanitizeChapters" /\ probe.done) =>
    LET parsed == parseInt(probe.arg, 10)
    IN /\ probe.out \in 1..99
       /\ Len(probe.arg) > 2 => probe.out = 1
       /\ isNaN(parsed) => probe.out = 1
       /\ (~isNaN(parsed) /\ (parsed < 1 \/ parsed > 99)) => probe.out = 1
       /\ (Len(probe.arg) <= 2 /\ ~isNaN(parsed) /\ parsed \in 1..99)
            => probe.out = parsed

\* "0" and "100" answered with 1, "95" with 95
C5_Witness ==
  /\ probe.fn = "SanitizeChapters"
  /\ probe.done
  /\ \/ probe.arg = << "0" >> /\ probe.out = 1
     \/ probe.arg = << "1", "0", "0" >> /\ probe.out = 1
     \/ probe.arg = << "9", "5" >> /\ probe.out = 95

(***************************************************************************)
(* C6: SanitizeTranslation returns the registry code equal to the          *)
(* upper-cased input when there is one and ESV otherwise, so the           *)
(* translation in every item's link and description is a registry code in  *)
(* canonical upper case.                                                   *)
(***************************************************************************)
EndsWith(text, suffix) ==
  /\ Len(text) >= Len(suffix)
  /\ SubSeq(text, Len(text) - Len(suffix) + 1, Len(text)) = suffix

C6_TranslationCanonical ==
  \A s \in Servers :
    Fed(s) =>
      LET code == resp[s].sanitizedTranslation
      IN /\ code = IF KnownTranslation(req.translation)
                   THEN toUpperCase(req.translation) ELSE ESV
         /\ \E i \in 1..Len(translationsJSON) : translationsJSON[i].Code = code
         /\ toUpperCase(code) = code
         /\ \A k \in 1..Len(resp[s].items) :
              /\ EndsWith(resp[s].items[k].url, << "&", "version=" >> \o code)
              /\ EndsWith(resp[s].items[k].description, << " plan in " >> \o code)

\* the segment KjV answered with an item linking to version=KJV
C6_Witness ==
  \E s \in Servers :
    /\ Fed(s)
    /\ req.translation = << "K", "j", "V" >>
    /\ resp[s].sanitizedTranslation = << "K", "J", "V" >>
    /\ Len(resp[s].items) >= 1

(***************************************************************************)
(* C7: the catalog a feed is sliced from is decided by the raw plan        *)
(* segment alone: the OT catalog exactly for "ot", the NT catalog exactly  *)
(* for "nt", the full-Bible catalog for "full" and every other string.     *)
(***************************************************************************)
C7_CatalogByPlanSegment ==
  \A s \in Servers :
    Fed(s) =>
      /\ resp[s].bookList = CatalogRefOfSegment(req.plan)
      /\ \A i \in 1..Len(resp[s].items) :
           resp[s].items[i].title
             = TitleOf(BookListOf(CatalogRefOfSegment(req.plan))[i])

\* the segment OT (upper case) answered from the full-Bible catalog
C7_Witness ==
  \E s \in Servers :
    /\ Fed(s)
    /\ req.plan = << "O", "T" >>
    /\ resp[s].bookList = "fullBookList"
    /\ Len(resp[s].items) >= 1

(***************************************************************************)
(* C8: escapeXML replaces each reserved character by exactly its own       *)
(* entity, so its output holds no raw < > " ' and every & starts one of    *)
(* the five entities; generateRSSXML passes every item title, description, *)
(* link, guid and author and every textual metadata field through it.      *)
(***************************************************************************)
EntityOf(c) ==
  CASE c = "&" -> << "&", "amp;" >>
    [] c = "<" -> << "&", "lt;" >>
    [] c = ">" -> << "&", "gt;" >>
    [] c = "\"" -> << "&", "quot;" >>
    [] c = "'" -> << "&", "apos;" >>
    [] OTHER -> << c >>

Entities(text) == Flatten([i \in 1..Len(text) |-> EntityOf(text[i])])

EntityNames == {"amp;", "lt;", "gt;", "quot;", "apos;"}

AmpersandsStartEntities(text) ==
  \A i \in 1..Len(text) :
    text[i] = "&" => (i < Len(text) /\ text[i + 1] \in EntityNames)

NoRawMarkup(text) == \A i \in 1..Len(text) : text[i] \notin {"<", ">", "\"", "'"}

\* part occurs in text as a run of consecutive atoms
Occurs(part, text) ==
  \E k \in 0..(Len(text) - Len(part)) : SubSeq(text, k + 1, k + Len(part)) = part

Enclosed(tag, text) == << "<", tag, ">" >> \o Entities(text) \o << "<", "/" \o tag, ">" >>

CountOf(atom, text) == Cardinality({i \in 1..Len(text) : text[i] = atom})

BenignItem ==
  [title |-> << "t" >>, description |-> << "d" >>, url |-> << "u" >>,
   author |-> << "a" >>, date |-> NowBase]

C8_EscapedEverywhere ==
  /\ (probe.fn = "escapeXML" /\ probe.done) =>
       /\ probe.out = Entities(probe.arg)
       /\ NoRawMarkup(probe.out)
       /\ AmpersandsStartEntities(probe.out)
  /\ (probe.fn = "generateRSSXML" /\ probe.done) =>
       LET m     == probe.arg.feedMetadata
           items == probe.arg.items
           plain == generateRSSXML(BenignMetadata, [i \in 1..Len(items) |-> BenignItem])
       IN /\ \A i \in 1..Len(items) :
               /\ Occurs(Enclosed("title", items[i].title), probe.out)
               /\ Occurs(Enclosed("description", items[i].description), probe.out)
               /\ Occurs(Enclosed("link", items[i].url), probe.out)
               /\ Occurs(<< "true", "\"", ">" >> \o Entities(items[i].url)
                           \o << "<", "/guid", ">" >>, probe.out)
               /\ Occurs(Enclosed("author", items[i].author), probe.out)
          /\ Occurs(Enclosed("title", m.title), probe.out)
          /\ Occurs(Enclosed("description", m.description), probe.out)
          /\ Occurs(Enclosed("link", m.siteUrl), probe.out)
          /\ Occurs(<< "href=", "\"" >> \o Entities(m.feedUrl) \o << "\"", " ", "rel=" >>,
                    probe.out)
          /\ Occurs(Enclosed("language", m.language), probe.out)
          /\ Occurs(Enclosed("managingEditor", m.managingEditor), probe.out)
          /\ Occurs(Enclosed("webMaster", m.webMaster), probe.out)
          /\ Occurs(Enclosed("copyright", m.copyright), probe.out)
          /\ Occurs(Enclosed("url", m.imageUrl), probe.out)
          /\ AmpersandsStartEntities(probe.out)
          /\ \A c \in {"<", ">", "\"", "'"} : CountOf(c, probe.out) = CountOf(c, plain)

\* escapeXML called on <& , and generateRSSXML called on an item whose title is <b>
C8_Witness ==
  \/ /\ probe.fn = "escapeXML"
     /\ probe.done
     /\ probe.arg = << "<", "&" >>
     /\ probe.out = << "&", "lt;", "&", "amp;" >>
  \/ /\ probe.fn = "generateRSSXML"
     /\ probe.done
     /\ Len(probe.arg.items) = 1
     /\ probe.arg.items[1].title = << "<", "b", ">" >>
     /\ Occurs(<< "<", "title", ">", "&", "lt;", "b", "&", "gt;", "<", "/title", ">" >>,
               probe.out)

(***************************************************************************)
(* C9: generateRSSXML emits exactly one <item> block per supplied item, in *)
(* the supplied order (none for an empty list), and the <title> contents   *)
(* extracted from the item blocks of a rendered feed are the titles        *)
(* BuildRSSFeedItems produced, in the same order.                          *)
(***************************************************************************)
C9_TitlesRoundTrip ==
  \A s \in Servers :
    Fed(s) =>
      /\ getRSSItemCount(resp[s].rssXML) = Len(resp[s].items)
      /\ CountTag(resp[s].rssXML, "/item") = Len(resp[s].items)
      /\ getRSSItems(resp[s].rssXML)
           = [i \in 1..Len(resp[s].items) |-> resp[s].items[i].title]

\* a nine-item NT feed: nine <item> blocks, and the ninth extracted title is
\* Matthew 9
C9_Witness ==
  \E s \in Servers :
    /\ Fed(s)
    /\ req.plan = PlanNT
    /\ Len(resp[s].items) = 9
    /\ getRSSItemCount(resp[s].rssXML) = 9
    /\ Len(getRSSItems(resp[s].rssXML)) = 9
    /\ getRSSItems(resp[s].rssXML)[9] = << "Matthew", " ", "9" >>

(***************************************************************************)
(* C10: publish dates and elapsedDays do not depend on the server's local  *)
(* timezone: two servers at different offsets that handle the same request *)
(* at the same instant compute the same elapsedDays and the same publish   *)
(* date for every item.                                                    *)
(***************************************************************************)
C10_TimezoneIndependent ==
  \A s1, s2 \in Servers :
    (Fed(s1) /\ Fed(s2) /\ resp[s1].at = resp[s2].at) =>
      /\ resp[s1].daysBetween = resp[s2].daysBetween
      /\ Len(resp[s1].items) = Len(resp[s2].items)
      /\ \A i \in 1..Min(Len(resp[s1].items), Len(resp[s2].items)) :
           resp[s1].items[i].date = resp[s2].items[i].date

(***************************************************************************)
(* C11: two runs of BuildRSSFeedItems on the same plan, translation, start *)
(* date and chapters per day, made on the same current date, return the    *)
(* same items with the same publish dates, whatever the time of day of     *)
(* each run.                                                               *)
(***************************************************************************)
SameEngineInputs ==
  /\ probe.arg[1].plan = probe.arg[2].plan
  /\ probe.arg[1].translation = probe.arg[2].translation
  /\ probe.arg[1].numberOfChapters = probe.arg[2].numberOfChapters
  /\ probe.out[1].startDate = probe.out[2].startDate

C11_IdempotentOnTheDay ==
  (probe.fn = "BuildRSSFeedItems" /\ probe.done) =>
    ((SameEngineInputs /\ UTCDay(probe.arg[1].at) = UTCDay(probe.arg[2].at))
       => probe.out[1].items = probe.out[2].items)

(***************************************************************************)
(* C12: the feed URL embedded in a rendered feed has the request path      *)
(* shape /rssbible/{plan}/{translation}/{startDate}/{chapters}/feed.rss    *)
(* filled with the sanitized values, and requesting it is a fixed point:   *)
(* its four segments sanitize to the plan, translation, start date and     *)
(* chapters per day of the request that produced it.                       *)
(***************************************************************************)
C12_FeedUrlFixedPoint ==
  \A s \in Servers :
    Fed(s) =>
      LET r == rssMatch(pathname(resp[s].feedUrl))
      IN /\ r.kind = "rss"
         /\ r.plan = resp[s].sanitizedPlan
         /\ r.translation = resp[s].sanitizedTranslation
         /\ r.startDate = formatDateToyyyyMMdd(resp[s].sanitizedStartDate, tz[s])
         /\ r.chapters = NumToChars(resp[s].sanitizedChapters)
         /\ SanitizePlan(r.plan) = resp[s].sanitizedPlan
         /\ SanitizeTranslation(r.translation) = resp[s].sanitizedTranslation
         /\ LocalCivil(SanitizeDate(r.startDate, resp[s].at, tz[s]), tz[s])
              = LocalCivil(resp[s].sanitizedStartDate, tz[s])
         /\ SanitizeChapters(r.chapters) = resp[s].sanitizedChapters

(***************************************************************************)
(* C13: elapsedDays is the absolute whole-day difference between today's   *)
(* UTC calendar date and the start date's calendar date: never negative,   *)
(* and a start date d days ahead gives the same elapsedDays and the same   *)
(* number of items as a start date d days back.                            *)
(***************************************************************************)
C13_ElapsedDaysSymmetric ==
  (probe.fn = "BuildRSSFeedItems" /\ probe.done) =>
    LET a == probe.arg[1]
        b == probe.arg[2]
    IN /\ \A k \in 1..2 :
            /\ probe.out[k].daysBetween >= 0
            /\ ValidDateSegment(probe.arg[k].startDate) =>
                 probe.out[k].daysBetween
                   = Abs(UTCDay(probe.arg[k].at) - SegmentDay(probe.arg[k].startDate))
       /\ ( /\ a.plan = b.plan
            /\ a.numberOfChapters = b.numberOfChapters
            /\ a.at = b.at
            /\ ValidDateSegment(a.startDate)
            /\ ValidDateSegment(b.startDate)
            /\ UTCDay(a.at) - SegmentDay(a.startDate)
                 = SegmentDay(b.startDate) - UTCDay(b.at) )
           => /\ probe.out[1].daysBetween = probe.out[2].daysBetween
              /\ Len(probe.out[1].items) = Len(probe.out[2].items)

\* the NT plan at 3 chapters a day from three days back and from three days
\* ahead: elapsedDays 3 and nine items both times
C13_Witness ==
  /\ probe.fn = "BuildRSSFeedItems"
  /\ probe.done
  /\ probe.arg[1].plan = PlanNT
  /\ probe.arg[2].plan = PlanNT
  /\ probe.arg[1].at = probe.arg[2].at
  /\ probe.arg[1].numberOfChapters = 3
  /\ probe.arg[2].numberOfChapters = 3
  /\ SegmentDay(probe.arg[1].startDate) = UTCDay(probe.arg[1].at) - 3
  /\ SegmentDay(probe.arg[2].startDate) = UTCDay(probe.arg[2].at) + 3
  /\ probe.out[1].daysBetween = 3
  /\ probe.out[2].daysBetween = 3
  /\ Len(probe.out[1].items) = 9
  /\ Len(probe.out[2].items) = 9

(***************************************************************************)
(* C14: with the plan, translation, start date and current date held       *)
(* fixed, for chapters-per-day values c1 <= c2 of 1..99 the feed for c2    *)
(* holds at least as many items as the feed for c1.                        *)
(***************************************************************************)
C14_MonotoneInChapters ==
  (probe.fn = "BuildRSSFeedItems" /\ probe.done) =>
    LET a == probe.arg[1]
        b == probe.arg[2]
    IN ( /\ a.plan = b.plan
         /\ a.translation = b.translation
         /\ a.startDate = b.startDate
         /\ probe.out[1].startDate = probe.out[2].startDate
         /\ a.at = b.at
         /\ a.numberOfChapters \in 1..99
         /\ b.numberOfChapters \in 1..99
         /\ a.numberOfChapters <= b.numberOfChapters )
        => Len(probe.out[1].items) <= Len(probe.out[2].items)

\* the full plan from twenty days back: 1000 items at 50 chapters a day, the
\* capped 1189 at 99 a day
C14_Witness ==
  /\ probe.fn = "BuildRSSFeedItems"
  /\ probe.done
  /\ probe.arg[1].plan = PlanFull
  /\ probe.arg[2].plan = PlanFull
  /\ probe.arg[1].startDate = MidDateSegment
  /\ probe.arg[2].startDate = MidDateSegment
  /\ probe.arg[1].numberOfChapters = 50
  /\ probe.arg[2].numberOfChapters = 99
  /\ Len(probe.out[1].items) = 1000
  /\ Len(probe.out[2].items) = 1189

(***************************************************************************)
(* C15: an item's publish date is the current date minus                   *)
(* (1 + (elapsedDays - dayNumber)) days: for a start date in the past the  *)
(* item of reading day n is dated on calendar day startDate + (n - 1);     *)
(* every item is dated no later than yesterday, and the last item exactly  *)
(* yesterday whenever elapsedDays * chaptersPerDay exceeds neither the cap *)
(* nor the catalog length.                                                 *)
(***************************************************************************)
\* ceil(k / c) for c >= 1, as the negated floor of -k / c
CeilDiv(k, c) == 0 - ((0 - k) \div c)

C15_PublishDates ==
  \A s \in Servers :
    Fed(s) =>
      LET d     == resp[s].daysBetween
          c     == resp[s].sanitizedChapters
          items == resp[s].items
          today == UTCDay(resp[s].at)
      IN /\ \A i \in 1..Len(items) :
              LET n == CeilDiv(i, c)
              IN /\ UTCDay(items[i].date) = today - (1 + (d - n))
                 /\ UTCDay(items[i].date) <= today - 1
                 /\ (ValidDateSegment(req.startDate) /\ SegmentDay(req.startDate) < today)
                      => UTCDay(items[i].date) = SegmentDay(req.startDate) + (n - 1)
         /\ ( /\ Len(items) > 0
              /\ d * c <= 1189
              /\ d * c <= Len(BookListOf(resp[s].bookList)) )
             => UTCDay(items[Len(items)].date) = today - 1

\* the NT plan from three days back at three chapters a day: the first item is
\* dated on the start date, the ninth yesterday
C15_Witness ==
  \E s \in Servers :
    /\ Fed(s)
    /\ req.plan = PlanNT
    /\ ValidDateSegment(req.startDate)
    /\ SegmentDay(req.startDate) = UTCDay(resp[s].at) - 3
    /\ resp[s].sanitizedChapters = 3
    /\ Len(resp[s].items) = 9
    /\ UTCDay(resp[s].items[1].date) = SegmentDay(req.startDate)
    /\ UTCDay(resp[s].items[4].date) = SegmentDay(req.startDate) + 1
    /\ UTCDay(resp[s].items[9].date) = UTCDay(resp[s].at) - 1

(***************************************************************************)
(* C16: the item at zero-based index i carries the day number              *)
(* ceil((i + 1) / chaptersPerDay) in its description; day numbers do not   *)
(* decrease along the list, start at 1, never exceed elapsedDays, and      *)
(* every day number but possibly the last of the list is carried by        *)
(* exactly chaptersPerDay consecutive items.                               *)
(***************************************************************************)
\* the number written after "Day " in a description "Day <n> of ..."
DayNumberIn(description) ==
  LET stop == CHOOSE k \in 2..Len(description) :
                /\ description[k] = " of "
                /\ \A j \in 2..(k - 1) : description[j] # " of "
  IN DecimalValue(SubSeq(description, 2, stop - 1))

C16_DayNumbers ==
  \A s \in Servers :
    Fed(s) =>
      LET items  == resp[s].items
          c      == resp[s].sanitizedChapters
          Day(i) == DayNumberIn(items[i].description)
          last   == IF Len(items) > 0 THEN Day(Len(items)) ELSE 0
      IN /\ \A i \in 1..Len(items) :
              /\ items[i].description[1] = "Day "
              /\ Day(i) = CeilDiv(i, c)
              /\ Day(i) <= resp[s].daysBetween
              /\ i < Len(items) => Day(i) <= Day(i + 1)
         /\ Len(items) > 0 => Day(1) = 1
         /\ \A n \in 1..(last - 1) :
              \E first \in 1..(Len(items) - c) :
                /\ Day(first) = n
                /\ first > 1 => Day(first - 1) < n
                /\ \A i \in first..(first + c - 1) : Day(i) = n
                /\ Day(first + c) > n

\* the NT plan from three days back at 99 chapters a day: 260 items, days 1 and
\* 2 with 99 items each and day 3 with the remaining 62
C16_Witness ==
  \E s \in Servers :
    /\ Fed(s)
    /\ req.plan = PlanNT
    /\ resp[s].sanitizedChapters = 99
    /\ resp[s].daysBetween = 3
    /\ Len(resp[s].items) = 260
    /\ DayNumberIn(resp[s].items[99].description) = 1
    /\ DayNumberIn(resp[s].items[100].description) = 2
    /\ DayNumberIn(resp[s].items[198].description) = 2
    /\ DayNumberIn(resp[s].items[199].description) = 3
    /\ DayNumberIn(resp[s].items[260].description) = 3

(***************************************************************************)
(* C17: when SanitizeDate rejects the start-date segment and falls back to *)
(* today, elapsedDays is 0 and the feed holds no items, whatever the       *)
(* server's local timezone offset and the time of day of the request.      *)
(***************************************************************************)
C17_RejectedDateEmptyFeed ==
  \A s \in Servers :
    (Fed(s) /\ resp[s].sanitizedStartDate = resp[s].at) =>
      /\ resp[s].daysBetween = 0
      /\ Len(resp[s].items) = 0

====
